---------------------------- MODULE Spec2Model ----------------------------
(* Model of form-inspecciones-gsheets.py: a Streamlit form that expands an  *)
(* inspector's selection of damaged parts into one record per part and      *)
(* appends the records to the "inspecciones" worksheet of a Google Sheet.   *)
(*                                                                          *)
(* Streamlit runs the whole script again on every widget interaction, so    *)
(* every action below is one script run: the widget edit, its on_change     *)
(* callback, and the rebuild of the record list (lines 196-269).            *)
EXTENDS Integers, Sequences, FiniteSets, TLC

VARIABLES
    rutas,                  \* worksheet "rutas" as read at line 97
    vehiculos,              \* worksheet "vehiculos" as read at line 96
    partes,                 \* worksheet "partes" as read at line 99
    hoja,                   \* worksheet "inspecciones" in Google Sheets (the store)
    inspecciones,           \* cached read of the store (lines 9-12, 95), shared by all sessions
    session_state,          \* st.session_state of each browser session
    df_inspeccion,          \* record list built by the latest script run of each session
    pc,                     \* position of each session's submit handler
    inspecciones_sin_cache, \* result of the uncached read at line 281
    mensaje,                \* what the latest script run showed below the submit button
    conn_ok,                \* whether the Google Sheets connector currently answers
    llamadas,               \* connector calls issued by submit handlers, and how many raised
    hist                    \* log of the submissions that reported success

vars == <<rutas, vehiculos, partes, hoja, inspecciones, session_state, df_inspeccion,
          pc, inspecciones_sin_cache, mensaje, conn_ok, llamadas, hist>>

-----------------------------------------------------------------------------
(* Bounds of the model.                                                     *)

\* Most parts one session marks as damaged at a time.
MaxDanadas == 2

\* Most locations one session selects for one damaged part.
MaxUbicaciones == 2

\* Most presses of the submit button in one behaviour.
MaxClicks == 2

-----------------------------------------------------------------------------
(* Cell values of a worksheet column: text, a number, or an empty cell      *)
(* (pandas NaN). One record shape, so that any two cells can be compared.   *)

Txt(s) == [t |-> "str", s |-> s, n |-> 0]

Num(n) == [t |-> "num", s |-> "", n |-> n]

NaN == [t |-> "nan", s |-> "", n |-> 0]

\* pd.notnull
notnull(c) == c.t # "nan"

\* Python's str() of a non-null cell.
str(c) == IF c.t = "str" THEN c.s ELSE ToString(c.n)

-----------------------------------------------------------------------------
(* Worksheets the model starts from.                                        *)

Fila(p, u) == [parte |-> p, ubicacion_parte |-> u]

\* The catalog of the spec's scenario (a part with two locations, a part with none)
\* and a part whose first row has an empty location cell.
CatalogoPuerta ==
    << Fila("puerta", Txt("izquierda")), Fila("puerta", Txt("derecha")),
       Fila("asiento", NaN),
       Fila("espejo", NaN), Fila("espejo", Txt("izq")) >>

\* Labels of equal length after a longer one, a repeated row, a numeric label.
CatalogoLlanta ==
    << Fila("llanta", Txt("tras")), Fila("llanta", Txt("del")),
       Fila("faro", Txt("lo")), Fila("llanta", Txt("izq")),
       Fila("llanta", Txt("del")), Fila("faro", Num(7)) >>

Catalogos == {CatalogoPuerta, CatalogoLlanta}

Ruta(n, r) == [numero_ruta |-> n, ruta |-> r]

TablaRutas == << Ruta(52, "Norte"), Ruta(60, "Centro"), Ruta(60, "Centro Bis") >>

Vehiculo(n, p, e) == [numero_economico |-> n, placa |-> p, empresa |-> e]

\* Two vehicles of one company; a vehicle whose economic number was left at 0.
TablaVehiculos ==
    << Vehiculo(101, "YP-1", "Alfa"), Vehiculo(102, "YP-2", "Alfa"),
       Vehiculo(0, "YP-3", "Beta") >>

\* What the inspector may type as the folio and as an observation.
Folios == {"", "F-1"}

Textos == {"", " rota "}

Modalidades == {"ALEATORIA", "DIRIGIDA"}

Sesiones == {"A", "B"}

-----------------------------------------------------------------------------
(* Sequence helpers that follow pandas and Python.                          *)

Range(s) == {s[i] : i \in 1..Len(s)}

Contains(s, x) == \E i \in 1..Len(s) : s[i] = x

\* Series.unique(): the distinct values in order of first appearance.
RECURSIVE unique(_)
unique(s) ==
    IF s = <<>> THEN <<>>
    ELSE LET r == unique(SubSeq(s, 1, Len(s) - 1))
             x == s[Len(s)]
         IN IF Contains(r, x) THEN r ELSE Append(r, x)

\* s without its occurrences of x, order kept.
RECURSIVE Remove(_, _)
Remove(s, x) ==
    IF s = <<>> THEN <<>>
    ELSE IF Head(s) = x THEN Remove(Tail(s), x)
    ELSE <<Head(s)>> \o Remove(Tail(s), x)

\* partes["parte"].unique() (line 100)
partes_unicas(tabla) == unique([i \in 1..Len(tabla) |-> tabla[i].parte])

\* partes.loc[partes["parte"] == parte, "ubicacion_parte"].unique() (lines 201, 242)
RECURSIVE Columna(_, _)
Columna(tabla, parte) ==
    IF tabla = <<>> THEN <<>>
    ELSE IF Head(tabla).parte = parte
         THEN <<Head(tabla).ubicacion_parte>> \o Columna(Tail(tabla), parte)
         ELSE Columna(Tail(tabla), parte)

ubicaciones_parte(tabla, parte) == unique(Columna(tabla, parte))

\* [str(u) for u in ubicaciones_parte if pd.notnull(u)] (lines 243-244)
RECURSIVE ubicaciones_validas(_)
ubicaciones_validas(us) ==
    IF us = <<>> THEN <<>>
    ELSE IF notnull(Head(us))
         THEN <<str(Head(us))>> \o ubicaciones_validas(Tail(us))
         ELSE ubicaciones_validas(Tail(us))

\* A min(..., key=len) that keeps the last of the shortest strings.
RECURSIVE min_len_last(_)
min_len_last(s) ==
    IF Len(s) = 1 THEN s[1]
    ELSE LET m == min_len_last(Tail(s))
         IN IF Len(s[1]) < Len(m) THEN s[1] ELSE m

\* Python's min(s, key=len) of a non-empty list: the first of the shortest strings.
RECURSIVE min_len(_)
min_len(s) ==
    IF Len(s) = 1 THEN s[1]
    ELSE LET m == min_len(SubSeq(s, 1, Len(s) - 1))
             x == s[Len(s)]
         IN IF Len(x) < Len(m) THEN x ELSE m

-----------------------------------------------------------------------------
(* Record expansion: lines 196-269.                                         *)

\* Every (part, location) pair a catalog offers.
Pares(tabla) ==
    {<<tabla[i].parte, tabla[i].ubicacion_parte>> : i \in 1..Len(tabla)}

\* One row of the record list (lines 221-237 and 250-266).
parte_inspeccionada(ss, parte, ubicacion, estado, observacion) ==
    [folio_inspeccion |-> ss.folio_inspeccion,
     modalidad_inspeccion |-> ss.modalidad_inspeccion,
     fecha_inspeccion |-> ss.fecha_inspeccion,
     hora_inspeccion |-> ss.hora_inspeccion,
     inspector |-> ss.inspector,
     numero_ruta |-> ss.numero_ruta,
     ruta |-> ss.nombre_ruta,
     numero_economico |-> ss.numero_economico,
     placa |-> ss.placa,
     empresa |-> ss.empresa,
     parte |-> parte,
     ubicacion_parte |-> ubicacion,
     estado_parte |-> estado,
     descripcion_evento |-> observacion,
     fuente_evento |-> "INSPECCION"]

\* The entries one damaged part adds to eventos_parte (lines 206-210).
eventos_de(ss, parte) ==
    [i \in 1..Len(ss.ubicaciones[parte]) |->
        [parte |-> parte,
         ubicacion |-> ss.ubicaciones[parte][i],
         observacion |-> ss.observacion[<<parte, ss.ubicaciones[parte][i]>>]]]

\* eventos_parte as a list in the dict's insertion order (lines 196-210).
RECURSIVE eventos_parte(_, _)
eventos_parte(ss, danadas) ==
    IF danadas = <<>> THEN <<>>
    ELSE eventos_de(ss, Head(danadas)) \o eventos_parte(ss, Tail(danadas))

\* The damaged branch without the test of line 220: every entry becomes a row of
\* every damaged part.
registros_danada_sin_filtro(ss, parte, eventos) ==
    [i \in 1..Len(eventos) |->
        parte_inspeccionada(ss, parte, eventos[i].ubicacion, "MAL ESTADO",
                            eventos[i].observacion)]

\* The rows of a damaged part: the entries of eventos_parte that name it (lines 217-238).
RECURSIVE registros_danada(_, _, _)
registros_danada(ss, parte, eventos) ==
    IF eventos = <<>> THEN <<>>
    ELSE IF Head(eventos).parte = parte
         THEN <<parte_inspeccionada(ss, parte, Head(eventos).ubicacion, "MAL ESTADO",
                                    Head(eventos).observacion)>>
              \o registros_danada(ss, parte, Tail(eventos))
         ELSE registros_danada(ss, parte, Tail(eventos))

\* The location recorded for a part in good state (lines 242-248).
ubicacion_buen_estado(tabla, parte) ==
    LET validas == ubicaciones_validas(ubicaciones_parte(tabla, parte))
    IN IF validas # <<>> THEN Txt(min_len(validas)) ELSE NaN

\* The row of a part that is not marked damaged (lines 240-267).
registro_buen_estado(ss, tabla, parte) ==
    parte_inspeccionada(ss, parte, ubicacion_buen_estado(tabla, parte), "BUEN ESTADO", "")

\* The rows one catalog part adds to the record list (lines 216-267).
registros_parte(ss, tabla, parte) ==
    IF Contains(ss.partes_danadas, parte)
    THEN registros_danada(ss, parte, eventos_parte(ss, ss.partes_danadas))
    ELSE <<registro_buen_estado(ss, tabla, parte)>>

RECURSIVE inspeccion_de(_, _, _)
inspeccion_de(ss, tabla, ps) ==
    IF ps = <<>> THEN <<>>
    ELSE registros_parte(ss, tabla, Head(ps)) \o inspeccion_de(ss, tabla, Tail(ps))

\* A record list that walks the damaged parts in the order they were marked, then
\* the remaining catalog parts.
RECURSIVE SinDanadas(_, _)
SinDanadas(ps, danadas) ==
    IF danadas = <<>> THEN ps ELSE SinDanadas(Remove(ps, Head(danadas)), Tail(danadas))

inspeccion_por_seleccion(ss, tabla) ==
    inspeccion_de(ss, tabla,
                  ss.partes_danadas \o SinDanadas(partes_unicas(tabla), ss.partes_danadas))

\* The record list of one script run (lines 212-269).
inspeccion(ss, tabla) == inspeccion_de(ss, tabla, partes_unicas(tabla))

-----------------------------------------------------------------------------
(* Session state and its callbacks: lines 127-194.                          *)

\* Index of the first row of a table whose column col holds v (the [...].iloc[0] and
\* [...].values[0] of lines 151-173).
Primera(tabla, col, v) ==
    CHOOSE i \in 1..Len(tabla) :
        /\ tabla[i][col] = v
        /\ \A j \in 1..(i - 1) : tabla[j][col] # v

ColumnaDe(tabla, col) == {tabla[i][col] : i \in 1..Len(tabla)}

\* Lines 150-153.
on_ruta_change(ss) ==
    [ss EXCEPT !.numero_ruta = rutas[Primera(rutas, "ruta", ss.nombre_ruta)].numero_ruta]

\* Lines 155-158.
on_numero_ruta_change(ss) ==
    [ss EXCEPT !.nombre_ruta = rutas[Primera(rutas, "numero_ruta", ss.numero_ruta)].ruta]

\* Lines 160-163.
on_numero_economico_change(ss) ==
    LET fila == vehiculos[Primera(vehiculos, "numero_economico", ss.numero_economico)]
    IN [ss EXCEPT !.placa = fila.placa, !.empresa = fila.empresa]

\* Lines 165-168.
on_placa_change(ss) ==
    LET fila == vehiculos[Primera(vehiculos, "placa", ss.placa)]
    IN [ss EXCEPT !.numero_economico = fila.numero_economico, !.empresa = fila.empresa]

\* An on_empresa_change that forgets the plate.
on_empresa_change_sin_placa(ss) ==
    LET fila == vehiculos[Primera(vehiculos, "empresa", ss.empresa)]
    IN [ss EXCEPT !.numero_economico = fila.numero_economico]

\* Lines 170-173.
on_empresa_change(ss) ==
    LET fila == vehiculos[Primera(vehiculos, "empresa", ss.empresa)]
    IN [ss EXCEPT !.numero_economico = fila.numero_economico, !.placa = fila.placa]

\* The session state of a new session: widget defaults (lines 127-135, 193) and the
\* first rows of the tables (lines 139-148). No part is marked, so no location and
\* no observation widget exists yet.
EstadoInicial(tr, tv, tp) ==
    [folio_inspeccion |-> "",
     modalidad_inspeccion |-> "ALEATORIA",
     fecha_inspeccion |-> "hoy",
     hora_inspeccion |-> "None",
     inspector |-> "",
     numero_ruta |-> tr[1].numero_ruta,
     nombre_ruta |-> tr[1].ruta,
     numero_economico |-> tv[1].numero_economico,
     placa |-> tv[1].placa,
     empresa |-> tv[1].empresa,
     partes_danadas |-> <<>>,
     ubicaciones |-> [p \in Range(partes_unicas(tp)) |-> <<>>],
     observacion |-> [par \in Pares(tp) |-> ""]]

\* One script run of session s that ends with session state ss: the record list is
\* rebuilt and whatever the previous run showed below the button is gone.
Rerun(s, ss) ==
    /\ pc[s] = "idle"
    /\ session_state' = [session_state EXCEPT ![s] = ss]
    /\ df_inspeccion' = [df_inspeccion EXCEPT ![s] = inspeccion(ss, partes)]
    /\ mensaje' = [mensaje EXCEPT ![s] = "nada"]
    /\ UNCHANGED <<rutas, vehiculos, partes, hoja, inspecciones, pc,
                   inspecciones_sin_cache, conn_ok, llamadas, hist>>

\* Line 127.
EditFolio(s) ==
    \E f \in Folios :
        /\ f # session_state[s].folio_inspeccion
        /\ Rerun(s, [session_state[s] EXCEPT !.folio_inspeccion = f])

\* Lines 128-130.
SelectModalidad(s) ==
    \E m \in Modalidades :
        /\ m # session_state[s].modalidad_inspeccion
        /\ Rerun(s, [session_state[s] EXCEPT !.modalidad_inspeccion = m])

\* Lines 178-179.
SelectNumeroRuta(s) ==
    \E v \in ColumnaDe(rutas, "numero_ruta") :
        /\ v # session_state[s].numero_ruta
        /\ Rerun(s, on_numero_ruta_change([session_state[s] EXCEPT !.numero_ruta = v]))

\* Line 180.
SelectRuta(s) ==
    \E v \in ColumnaDe(rutas, "ruta") :
        /\ v # session_state[s].nombre_ruta
        /\ Rerun(s, on_ruta_change([session_state[s] EXCEPT !.nombre_ruta = v]))

\* Lines 183-185.
SelectNumeroEconomico(s) ==
    \E v \in ColumnaDe(vehiculos, "numero_economico") :
        /\ v # session_state[s].numero_economico
        /\ Rerun(s, on_numero_economico_change(
                        [session_state[s] EXCEPT !.numero_economico = v]))

\* Line 186.
SelectPlaca(s) ==
    \E v \in ColumnaDe(vehiculos, "placa") :
        /\ v # session_state[s].placa
        /\ Rerun(s, on_placa_change([session_state[s] EXCEPT !.placa = v]))

\* Lines 187-188.
SelectEmpresa(s) ==
    \E v \in ColumnaDe(vehiculos, "empresa") :
        /\ v # session_state[s].empresa
        /\ Rerun(s, on_empresa_change([session_state[s] EXCEPT !.empresa = v]))

\* The session state once the widgets of part p are no longer drawn: Streamlit drops
\* the state of a keyed widget that a run does not draw (keys of lines 202 and 207).
SinWidgetsDe(ss, p) ==
    [ss EXCEPT !.ubicaciones[p] = <<>>,
               !.observacion = [par \in DOMAIN ss.observacion |->
                                   IF par[1] = p THEN "" ELSE ss.observacion[par]]]

\* Lines 193-194: the inspector adds a part to the multiselect.
MarkDanada(s) ==
    \E p \in Range(partes_unicas(partes)) :
        /\ ~Contains(session_state[s].partes_danadas, p)
        /\ Len(session_state[s].partes_danadas) < MaxDanadas
        /\ Rerun(s, [session_state[s] EXCEPT !.partes_danadas = Append(@, p)])

\* Lines 193-194: the inspector removes a part from the multiselect.
UnmarkDanada(s) ==
    \E p \in Range(session_state[s].partes_danadas) :
        Rerun(s, SinWidgetsDe([session_state[s] EXCEPT
                                   !.partes_danadas = Remove(@, p)], p))

\* Lines 201-204: the inspector adds a location of a damaged part.
SelectUbicacion(s) ==
    \E p \in Range(session_state[s].partes_danadas) :
        \E u \in Range(ubicaciones_parte(partes, p)) :
            /\ ~Contains(session_state[s].ubicaciones[p], u)
            /\ Len(session_state[s].ubicaciones[p]) < MaxUbicaciones
            /\ Rerun(s, [session_state[s] EXCEPT !.ubicaciones[p] = Append(@, u)])

\* Lines 201-204: the inspector removes a location; its text area is no longer drawn.
DeselectUbicacion(s) ==
    \E p \in Range(session_state[s].partes_danadas) :
        \E u \in Range(session_state[s].ubicaciones[p]) :
            Rerun(s, [session_state[s] EXCEPT !.ubicaciones[p] = Remove(@, u),
                                              !.observacion[<<p, u>>] = ""])

\* Lines 207-210: the inspector types an observation.
EditObservacion(s) ==
    \E p \in Range(session_state[s].partes_danadas) :
        \E u \in Range(session_state[s].ubicaciones[p]) :
            \E t \in Textos :
                /\ t # session_state[s].observacion[<<p, u>>]
                /\ Rerun(s, [session_state[s] EXCEPT !.observacion[<<p, u>>] = t])

-----------------------------------------------------------------------------
(* The store and the first script run.                                      *)

\* A row an earlier inspection left in the worksheet.
FilaPrevia ==
    [folio_inspeccion |-> "F-0", modalidad_inspeccion |-> "DIRIGIDA",
     fecha_inspeccion |-> "ayer", hora_inspeccion |-> "None", inspector |-> "",
     numero_ruta |-> 52, ruta |-> "Norte", numero_economico |-> 101, placa |-> "YP-1",
     empresa |-> "Alfa", parte |-> "puerta", ubicacion_parte |-> Txt("derecha"),
     estado_parte |-> "MAL ESTADO", descripcion_evento |-> "golpe",
     fuente_evento |-> "INSPECCION"]

\* The state once every session has run the script for the first time on the
\* worksheets tr, tv, tp (lines 90-100, 127-148, 193-269).
InitCon(tr, tv, tp) ==
    /\ rutas = tr
    /\ vehiculos = tv
    /\ partes = tp
    /\ hoja = <<FilaPrevia>>
    /\ inspecciones = <<FilaPrevia>>
    /\ session_state = [s \in Sesiones |-> EstadoInicial(tr, tv, tp)]
    /\ df_inspeccion = [s \in Sesiones |-> inspeccion(EstadoInicial(tr, tv, tp), tp)]
    /\ pc = [s \in Sesiones |-> "idle"]
    /\ inspecciones_sin_cache = [s \in Sesiones |-> <<>>]
    /\ mensaje = [s \in Sesiones |-> "nada"]
    /\ conn_ok = TRUE
    /\ llamadas = [read |-> 0, update |-> 0, fallas |-> 0]
    /\ hist = <<>>

-----------------------------------------------------------------------------
(* The submit button: lines 277-285.                                        *)

\* A test of line 278 that looks at the folio only.
campos_faltantes_solo_folio(ss) == ss.folio_inspeccion = ""

\* The test of line 278: "not folio_inspeccion or not st.session_state.numero_economico".
\* An empty string and the number 0 are what Python takes as false here.
campos_faltantes(ss) == ss.folio_inspeccion = "" \/ ss.numero_economico = 0

\* A read served from the cache of get_worksheet_data instead of the worksheet.
leer_con_cache == inspecciones

\* conn.read(worksheet="inspecciones", ttl=0) (line 281): the worksheet as it is now.
leer_sin_cache == hoja

\* A concatenation that skips rows the collection already ends with.
concat_sin_repetir(a, b) ==
    IF Len(b) <= Len(a) /\ SubSeq(a, Len(a) - Len(b) + 1, Len(a)) = b THEN a ELSE a \o b

\* pd.concat([a, b], ignore_index=True) (lines 282-283).
concat(a, b) == a \o b

\* safe_gsheets_update (lines 34-88) on the collection it read and the new rows:
\* whether it reports success, and the worksheet it leaves. No code path calls it;
\* the submit button runs lines 281-285 instead.
safe_gsheets_update(existing_data, new_data) ==
    LET updated_data == concat(existing_data, new_data)
    IN IF existing_data = <<>>
       THEN [ok |-> FALSE, hoja |-> hoja]
       ELSE IF Len(updated_data) < Len(existing_data)
            THEN [ok |-> FALSE, hoja |-> hoja]
            ELSE [ok |-> TRUE, hoja |-> updated_data]

\* The press is answered by the error of line 279; nothing is read or written.
RegistrarBloqueado(s) ==
    /\ pc[s] = "idle"
    /\ campos_faltantes(session_state[s])
    /\ df_inspeccion' = [df_inspeccion EXCEPT ![s] = inspeccion(session_state[s], partes)]
    /\ mensaje' = [mensaje EXCEPT ![s] = "error_campos"]
    /\ UNCHANGED <<rutas, vehiculos, partes, hoja, inspecciones, session_state, pc,
                   inspecciones_sin_cache, conn_ok, llamadas, hist>>

\* The press passes line 278 and the handler reads the worksheet (line 281). A read
\* that raises ends the script run: Streamlit shows the exception.
RegistrarLee(s) ==
    /\ pc[s] = "idle"
    /\ ~campos_faltantes(session_state[s])
    /\ llamadas.read < MaxClicks
    /\ df_inspeccion' = [df_inspeccion EXCEPT ![s] = inspeccion(session_state[s], partes)]
    /\ IF conn_ok
       THEN /\ inspecciones_sin_cache' = [inspecciones_sin_cache EXCEPT ![s] = leer_sin_cache]
            /\ pc' = [pc EXCEPT ![s] = "leido"]
            /\ mensaje' = [mensaje EXCEPT ![s] = "nada"]
            /\ llamadas' = [llamadas EXCEPT !.read = @ + 1]
       ELSE /\ mensaje' = [mensaje EXCEPT ![s] = "excepcion"]
            /\ llamadas' = [llamadas EXCEPT !.read = @ + 1, !.fallas = @ + 1]
            /\ UNCHANGED <<inspecciones_sin_cache, pc>>
    /\ UNCHANGED <<rutas, vehiculos, partes, hoja, inspecciones, session_state,
                   conn_ok, hist>>

\* A handler that swallows the exception of the update and reports success anyway.
RegistrarActualiza_traga_error(s) ==
    /\ pc[s] = "leido"
    /\ pc' = [pc EXCEPT ![s] = "idle"]
    /\ inspecciones_sin_cache' = [inspecciones_sin_cache EXCEPT ![s] = <<>>]
    /\ mensaje' = [mensaje EXCEPT ![s] = "exito"]
    /\ IF conn_ok
       THEN /\ hoja' = concat(inspecciones_sin_cache[s], df_inspeccion[s])
            /\ llamadas' = [llamadas EXCEPT !.update = @ + 1]
            /\ hist' = Append(hist, [sesion |-> s,
                                     estado |-> session_state[s],
                                     antes |-> hoja,
                                     registros |-> df_inspeccion[s]])
       ELSE /\ llamadas' = [llamadas EXCEPT !.update = @ + 1, !.fallas = @ + 1]
            /\ UNCHANGED <<hoja, hist>>
    /\ UNCHANGED <<rutas, vehiculos, partes, inspecciones, session_state,
                   df_inspeccion, conn_ok>>

\* Lines 282-285: concatenate, write the whole worksheet back, report success. An
\* update that raises ends the script run before line 285.
RegistrarActualiza(s) ==
    /\ pc[s] = "leido"
    /\ pc' = [pc EXCEPT ![s] = "idle"]
    /\ inspecciones_sin_cache' = [inspecciones_sin_cache EXCEPT ![s] = <<>>]
    /\ IF conn_ok
       THEN /\ hoja' = concat(inspecciones_sin_cache[s], df_inspeccion[s])
            /\ mensaje' = [mensaje EXCEPT ![s] = "exito"]
            /\ llamadas' = [llamadas EXCEPT !.update = @ + 1]
            /\ hist' = Append(hist, [sesion |-> s,
                                     estado |-> session_state[s],
                                     antes |-> hoja,
                                     registros |-> df_inspeccion[s]])
       ELSE /\ mensaje' = [mensaje EXCEPT ![s] = "excepcion"]
            /\ llamadas' = [llamadas EXCEPT !.update = @ + 1, !.fallas = @ + 1]
            /\ UNCHANGED <<hoja, hist>>
    /\ UNCHANGED <<rutas, vehiculos, partes, inspecciones, session_state,
                   df_inspeccion, conn_ok>>

\* A press of "Registrar datos de la inspeccion en Google Drive" by session s.
Registrar(s) == RegistrarBloqueado(s) \/ RegistrarLee(s)

\* Lines 107-109 (and the ttl of line 9): the cached worksheets are read again.
ActualizarDatos(s) ==
    /\ pc[s] = "idle"
    /\ conn_ok
    /\ inspecciones # hoja
    /\ inspecciones' = hoja
    /\ df_inspeccion' = [df_inspeccion EXCEPT ![s] = inspeccion(session_state[s], partes)]
    /\ mensaje' = [mensaje EXCEPT ![s] = "nada"]
    /\ UNCHANGED <<rutas, vehiculos, partes, hoja, session_state, pc,
                   inspecciones_sin_cache, conn_ok, llamadas, hist>>

\* The connection to Google Sheets drops or comes back.
CambiaConexion ==
    /\ conn_ok' = ~conn_ok
    /\ UNCHANGED <<rutas, vehiculos, partes, hoja, inspecciones, session_state,
                   df_inspeccion, pc, inspecciones_sin_cache, mensaje, llamadas, hist>>

\* One inspector filling the form, on any of the catalogs.
InitForm == \E tp \in Catalogos : InitCon(TablaRutas, TablaVehiculos, tp)

\* The inspector marks parts, picks locations and types observations.
NextForm ==
    \/ EditFolio("A")
    \/ MarkDanada("A")
    \/ UnmarkDanada("A")
    \/ SelectUbicacion("A")
    \/ DeselectUbicacion("A")
    \/ EditObservacion("A")

SpecForm == InitForm /\ [][NextForm]_vars

\* The inspector works the header of the form and the list of damaged parts.
NextSync ==
    \/ EditFolio("A")
    \/ SelectModalidad("A")
    \/ SelectNumeroRuta("A")
    \/ SelectRuta("A")
    \/ SelectNumeroEconomico("A")
    \/ SelectPlaca("A")
    \/ SelectEmpresa("A")
    \/ MarkDanada("A")
    \/ UnmarkDanada("A")

SpecSync == InitForm /\ [][NextSync]_vars

\* One inspector who fills in the folio, picks the vehicle by company, marks parts
\* and submits, over a connection that may drop.
Init == InitCon(TablaRutas, TablaVehiculos, CatalogoLlanta)

Next ==
    \/ EditFolio("A")
    \/ SelectEmpresa("A")
    \/ MarkDanada("A")
    \/ UnmarkDanada("A")
    \/ RegistrarBloqueado("A")
    \/ RegistrarLee("A")
    \/ RegistrarActualiza("A")
    \/ ActualizarDatos("A")
    \/ CambiaConexion

Spec == Init /\ [][Next]_vars

\* Two inspectors, each in a browser session of the same app, over a connection
\* that stays up.
NextTwo ==
    \E s \in Sesiones :
        \/ EditFolio(s)
        \/ MarkDanada(s)
        \/ UnmarkDanada(s)
        \/ RegistrarBloqueado(s)
        \/ RegistrarLee(s)
        \/ RegistrarActualiza(s)

SpecTwo == Init /\ [][NextTwo]_vars

-----------------------------------------------------------------------------
(* Properties of the record list (session "A").                             *)

\* Positions of the rows of part p in a record list.
FilasDe(R, p) == {i \in 1..Len(R) : R[i].parte = p}

\* Position of a part in the catalog's order of parts.
Posicion(ps, p) == CHOOSE i \in 1..Len(ps) : ps[i] = p

RECURSIVE Suma(_, _)
Suma(f, S) == IF S = {} THEN 0 ELSE LET x == CHOOSE y \in S : TRUE
                                    IN f[x] + Suma(f, S \ {x})

\* (#undamaged parts) + sum of len(selections[p]) over the damaged parts.
CuentaEsperada(ss, ps) ==
    Suma([p \in Range(ps) |-> IF Contains(ss.partes_danadas, p)
                              THEN Len(ss.ubicaciones[p]) ELSE 1], Range(ps))

\* C1: the record list holds exactly one GOOD row with an empty observation for
\* each catalog part that is not marked damaged, exactly one BAD row for each
\* selected (part, location) pair of a damaged part, carrying that pair's
\* observation unchanged, no row for a damaged part without selected locations,
\* and so (#undamaged) + (#selected pairs of damaged parts) rows in all.
C1_ExactlyTheExpectedRecords ==
    LET ss == session_state["A"]
        R == df_inspeccion["A"]
        ps == partes_unicas(partes)
    IN /\ \A i \in 1..Len(R) : Contains(ps, R[i].parte)
       /\ \A p \in Range(ps) :
            IF ~Contains(ss.partes_danadas, p)
            THEN /\ Cardinality(FilasDe(R, p)) = 1
                 /\ \A i \in FilasDe(R, p) :
                        /\ R[i].estado_parte = "BUEN ESTADO"
                        /\ R[i].descripcion_evento = ""
            ELSE /\ Cardinality(FilasDe(R, p)) = Len(ss.ubicaciones[p])
                 /\ \A i \in FilasDe(R, p) :
                        /\ R[i].estado_parte = "MAL ESTADO"
                        /\ Contains(ss.ubicaciones[p], R[i].ubicacion_parte)
                        /\ R[i].descripcion_evento
                               = ss.observacion[<<p, R[i].ubicacion_parte>>]
                 /\ \A u \in Range(ss.ubicaciones[p]) :
                        Cardinality({i \in FilasDe(R, p) : R[i].ubicacion_parte = u}) = 1
       /\ Len(R) = CuentaEsperada(ss, ps)

\* A list built with an undamaged part, a damaged part with two selected locations
\* (one observation typed in) and a damaged part without any selected location.
C1_Witness ==
    LET ss == session_state["A"]
    IN /\ partes = CatalogoPuerta
       /\ Range(ss.partes_danadas) = {"puerta", "espejo"}
       /\ Len(ss.ubicaciones["puerta"]) = 2
       /\ ss.ubicaciones["espejo"] = <<>>
       /\ ss.observacion[<<"puerta", Txt("derecha")>>] = " rota "
       /\ Len(df_inspeccion["A"]) = 3

\* The non-null catalog rows of part p.
FilasValidas(tabla, p) ==
    {i \in 1..Len(tabla) : tabla[i].parte = p /\ tabla[i].ubicacion_parte.t # "nan"}

\* C6: the GOOD row of a part that is not marked damaged carries the text of the
\* shortest non-null catalog location of the part, the first such in catalog order
\* on a tie; a part without non-null location gets a null location, still GOOD.
C6_ShortestLocationFirstOnTie ==
    LET ss == session_state["A"]
        R == df_inspeccion["A"]
    IN \A i \in 1..Len(R) :
         ~Contains(ss.partes_danadas, R[i].parte) =>
            LET filas == FilasValidas(partes, R[i].parte)
            IN /\ R[i].estado_parte = "BUEN ESTADO"
               /\ IF filas = {}
                  THEN R[i].ubicacion_parte = NaN
                  ELSE \E k \in filas :
                         /\ R[i].ubicacion_parte = Txt(str(partes[k].ubicacion_parte))
                         /\ \A j \in filas :
                              /\ Len(str(partes[j].ubicacion_parte))
                                    >= Len(str(partes[k].ubicacion_parte))
                              /\ j < k => Len(str(partes[j].ubicacion_parte))
                                             > Len(str(partes[k].ubicacion_parte))

\* After an edit of the form, the part with the labels "tras", "del", "izq" is in
\* good state and so is the part with the numeric label 7.
C6_Witness ==
    /\ partes = CatalogoLlanta
    /\ session_state["A"].folio_inspeccion = "F-1"
    /\ session_state["A"].partes_danadas = <<>>
    /\ \E i \in 1..Len(df_inspeccion["A"]) :
          /\ df_inspeccion["A"][i].parte = "llanta"
          /\ df_inspeccion["A"][i].ubicacion_parte = Txt("del")
    /\ \E i \in 1..Len(df_inspeccion["A"]) :
          /\ df_inspeccion["A"][i].parte = "faro"
          /\ df_inspeccion["A"][i].ubicacion_parte = Txt("7")

\* The locations of the rows of part p, in the order of the record list.
RECURSIVE UbicacionesEnLista(_, _)
UbicacionesEnLista(R, p) ==
    IF R = <<>> THEN <<>>
    ELSE IF Head(R).parte = p
         THEN <<Head(R).ubicacion_parte>> \o UbicacionesEnLista(Tail(R), p)
         ELSE UbicacionesEnLista(Tail(R), p)

\* C7: the record list follows the catalog's order of parts whatever the order in
\* which the parts were marked, and the BAD rows of one part follow the order in
\* which the inspector selected its locations.
C7_CatalogOrderThenSelectionOrder ==
    LET ss == session_state["A"]
        R == df_inspeccion["A"]
        ps == partes_unicas(partes)
    IN /\ \A i, j \in 1..Len(R) :
            i < j => Posicion(ps, R[i].parte) <= Posicion(ps, R[j].parte)
       /\ \A p \in Range(ss.partes_danadas) :
            UbicacionesEnLista(R, p) = ss.ubicaciones[p]

\* Parts marked against the catalog's order, locations selected against it too.
C7_Witness ==
    LET ss == session_state["A"]
    IN /\ partes = CatalogoPuerta
       /\ ss.partes_danadas = <<"espejo", "puerta">>
       /\ ss.ubicaciones["puerta"] = <<Txt("derecha"), Txt("izquierda")>>
       /\ ss.ubicaciones["espejo"] = <<Txt("izq")>>
       /\ Len(df_inspeccion["A"]) = 4

-----------------------------------------------------------------------------
(* Properties of the selectors (session "A").                               *)

HayFilaRuta(ss) ==
    \E i \in 1..Len(rutas) :
        rutas[i] = [numero_ruta |-> ss.numero_ruta, ruta |-> ss.nombre_ruta]

HayFilaVehiculo(ss) ==
    \E i \in 1..Len(vehiculos) :
        vehiculos[i] = [numero_economico |-> ss.numero_economico,
                        placa |-> ss.placa, empresa |-> ss.empresa]

CamposRuta(ss) == <<ss.numero_ruta, ss.nombre_ruta>>

CamposVehiculo(ss) == <<ss.numero_economico, ss.placa, ss.empresa>>

\* C9: after any edits of the selectors, (numero_ruta, nombre_ruta) is a row of the
\* routes table and (numero_economico, placa, empresa) a row of the vehicles table;
\* an edit of a route field leaves the vehicle fields alone and the other way round.
C9_SelectorsStayConsistent ==
    /\ [](HayFilaRuta(session_state["A"]) /\ HayFilaVehiculo(session_state["A"]))
    /\ [][\/ CamposRuta(session_state'["A"]) = CamposRuta(session_state["A"])
          \/ CamposVehiculo(session_state'["A"]) = CamposVehiculo(session_state["A"])]_vars

\* The company selector moved the form to the first vehicle of "Beta", and the route
\* was picked by a name whose number two routes share.
C9_Witness ==
    /\ session_state["A"].nombre_ruta = "Centro Bis"
    /\ session_state["A"].numero_ruta = 60
    /\ session_state["A"].empresa = "Beta"
    /\ session_state["A"].placa = "YP-3"
    /\ session_state["A"].numero_economico = 0

-----------------------------------------------------------------------------
(* Properties of the submit button.                                         *)

IsPrefix(a, b) == Len(a) <= Len(b) /\ SubSeq(b, 1, Len(a)) = a

\* b occurs in a as a block of consecutive rows.
EsBloque(b, a) ==
    \E k \in 0..(Len(a) - Len(b)) : SubSeq(a, k + 1, k + Len(b)) = b

RECURSIVE TotalRegistros(_)
TotalRegistros(h) ==
    IF h = <<>> THEN 0 ELSE Len(Head(h).registros) + TotalRegistros(Tail(h))

\* C2: with one session submitting, the worksheet is only ever appended to: it
\* changes only in a submission that reports success, which leaves it equal to the
\* collection read uncached right before the write (the worksheet as it then is)
\* followed by the new records in order; rows already there keep their place and
\* content, and the row count never decreases.
C2_StoreOnlyAppendedTo ==
    /\ [](IsPrefix(<<FilaPrevia>>, hoja))
    /\ [][/\ hoja' # hoja => hist' # hist
          /\ hist' # hist =>
                /\ pc["A"] = "leido"
                /\ inspecciones_sin_cache["A"] = hoja
                /\ hoja' = inspecciones_sin_cache["A"] \o df_inspeccion["A"]
                /\ hist' = Append(hist, hist'[Len(hist')])
                /\ hist'[Len(hist')].registros = df_inspeccion["A"]
          /\ IsPrefix(hoja, hoja')
          /\ Len(hoja') >= Len(hoja)]_vars

\* Two submissions reported success and the worksheet grew both times.
C2_Witness ==
    /\ Len(hist) = 2
    /\ Len(hist[1].registros) > 0
    /\ Len(hist[2].registros) > 0
    /\ Len(hoja) = 1 + Len(hist[1].registros) + Len(hist[2].registros)

\* C3: a submission reads the whole worksheet without caching, concatenates the new
\* records, and rejects the write, leaving the worksheet as it is, when the
\* resulting collection is smaller than the collection in the worksheet before the
\* write.
C3_SubmitRejectsShrinkingWrite ==
    [][/\ \A s \in Sesiones :
             (pc[s] = "idle" /\ pc'[s] = "leido") => inspecciones_sin_cache'[s] = hoja
       /\ \A s \in Sesiones :
             (pc[s] = "leido" /\ pc'[s] = "idle") =>
                 LET inspecciones_actualizadas ==
                         inspecciones_sin_cache[s] \o df_inspeccion[s]
                 IN /\ Len(inspecciones_actualizadas) < Len(hoja) => hoja' = hoja
                    /\ hoja' # hoja => hoja' = inspecciones_actualizadas]_vars

\* C4: a press of the submit button with an empty folio or a missing economic
\* number is answered by the error message, issues no read and no write and leaves
\* the worksheet as it is; a read or a write is issued only with both fields present.
C4_MissingFieldBlocksSubmission ==
    /\ [](\A s \in Sesiones :
             pc[s] = "leido" =>
                 /\ session_state[s].folio_inspeccion # ""
                 /\ session_state[s].numero_economico # 0)
    /\ [](\A i \in 1..Len(hist) :
             /\ hist[i].estado.folio_inspeccion # ""
             /\ hist[i].estado.numero_economico # 0)
    /\ [][\A s \in Sesiones :
             (/\ \/ session_state[s].folio_inspeccion = ""
                 \/ session_state[s].numero_economico = 0
              /\ Registrar(s))
             => /\ mensaje'[s] = "error_campos"
                /\ hoja' = hoja
                /\ llamadas' = llamadas
                /\ pc'[s] = "idle"]_vars

\* The folio is filled in, the vehicle has no economic number, and the press was
\* answered by the error message.
C4_Witness ==
    /\ session_state["A"].folio_inspeccion = "F-1"
    /\ session_state["A"].numero_economico = 0
    /\ mensaje["A"] = "error_campos"
    /\ llamadas.read = 0

\* C5: when the read or the write of a submission raises, the session sees an
\* error and no success message, the call is not issued again, the worksheet is as
\* before the attempt, and the form state is as the inspector left it, so the
\* button can be pressed again.
C5_FailureSurfacedStatePreserved ==
    [][llamadas'.fallas # llamadas.fallas =>
          /\ llamadas'.fallas = llamadas.fallas + 1
          /\ llamadas'.read + llamadas'.update = llamadas.read + llamadas.update + 1
          /\ hoja' = hoja
          /\ hist' = hist
          /\ session_state' = session_state
          /\ \E s \in Sesiones :
                /\ pc[s] = "leido" \/ llamadas'.read # llamadas.read
                /\ mensaje'[s] = "excepcion"
                /\ pc'[s] = "idle"
          /\ \A s \in Sesiones : mensaje'[s] = "exito" => mensaje[s] = "exito"]_vars

\* A write raised after a read that went through; the form is still filled in.
C5_Witness ==
    /\ mensaje["A"] = "excepcion"
    /\ llamadas = [read |-> 1, update |-> 1, fallas |-> 1]
    /\ session_state["A"].folio_inspeccion = "F-1"
    /\ session_state["A"].partes_danadas # <<>>
    /\ pc["A"] = "idle"

\* C8: two successive submissions made from the same form state append the same
\* record list twice: the worksheet grows by twice the length of the list and
\* holds the rows in duplicate.
C8_SubmitTwiceAppendsTwice ==
    \A i \in 1..(Len(hist) - 1) :
        hist[i + 1].estado = hist[i].estado =>
            /\ hist[i + 1].registros = hist[i].registros
            /\ hist[i + 1].antes = hist[i].antes \o hist[i].registros
            /\ i + 1 = Len(hist) =>
                 /\ hoja = hist[i].antes \o hist[i].registros \o hist[i].registros
                 /\ Len(hoja) = Len(hist[i].antes) + 2 * Len(hist[i].registros)

\* The button was pressed twice on one form state with a damaged part marked.
C8_Witness ==
    /\ Len(hist) = 2
    /\ hist[1].estado = hist[2].estado
    /\ hist[1].estado.partes_danadas = <<"faro">>
    /\ Len(hist[1].registros) = 1
    /\ Len(hoja) = 3

\* C10: when the submissions of two sessions interleave, none that reported
\* success is lost: once both are through, the worksheet holds the rows it had
\* before and the records of every submission that reported success, and it never
\* has fewer rows than a write left in it.
C10_NoSuccessfulSubmissionLost ==
    /\ IsPrefix(<<FilaPrevia>>, hoja)
    /\ \A i \in 1..Len(hist) :
          Len(hoja) >= Len(hist[i].antes) + Len(hist[i].registros)
    /\ (\A s \in Sesiones : pc[s] = "idle") =>
          /\ \A i \in 1..Len(hist) : EsBloque(hist[i].registros, hoja)
          /\ Len(hoja) = 1 + TotalRegistros(hist)

=============================================================================
